---- MODULE Spec2Model ----
(***************************************************************************)
(* Model of the question-answering pipelines of local-perplexity:          *)
(*   perplexity.py            build_first_queries -> serial_search ->      *)
(*                            final_writer                                 *)
(*   perplexity_optimized.py  generate_queries -> execute_search ->        *)
(*                            write_response                               *)
(* over the ReportState of schemas.py.  The language models and the search *)
(* provider are collaborators: every call either returns a value drawn     *)
(* from a small set or raises.                                             *)
(*                                                                         *)
(* A Python string is a sequence of atoms.  An atom is one character, or a *)
(* text fragment that no operation of the code looks into (a literal of an *)
(* f-string, or a field handed over by a collaborator).  The empty string  *)
(* is << >>.  None and "" are both falsy for the `or` and `if` that read a *)
(* hit's content, and are both modelled as << >>.                          *)
(***************************************************************************)
EXTENDS Integers, Sequences, FiniteSets

(***************************************************************************)
(* Bounds of the model.                                                    *)
(***************************************************************************)
MaxPlanned == 3     \* longest list the structured planner returns
MaxLines   == 4     \* most lines in a free-text planner answer
MaxResults == 1     \* most hits in one search response

(***************************************************************************)
(* String primitives (Python str methods used by the code).                *)
(***************************************************************************)
Whitespace == {" ", "\n", "\t"}

UpperAlpha == <<"A","B","C","D","E","F","G","H","I","J","K","L","M",
                "N","O","P","Q","R","S","T","U","V","W","X","Y","Z">>
LowerAlpha == <<"a","b","c","d","e","f","g","h","i","j","k","l","m",
                "n","o","p","q","r","s","t","u","v","w","x","y","z">>

LowerChar(c) ==
    IF \E k \in 1..Len(UpperAlpha) : UpperAlpha[k] = c
    THEN LowerAlpha[CHOOSE k \in 1..Len(UpperAlpha) : UpperAlpha[k] = c]
    ELSE c

\* str.lower()
Lower(s) == [k \in 1..Len(s) |-> LowerChar(s[k])]

RECURSIVE LStripChars(_, _)
\* str.lstrip(chars)
LStripChars(s, chars) ==
    IF s # << >> /\ Head(s) \in chars THEN LStripChars(Tail(s), chars) ELSE s

RECURSIVE RStripChars(_, _)
\* str.rstrip(chars)
RStripChars(s, chars) ==
    IF s # << >> /\ s[Len(s)] \in chars
    THEN RStripChars(SubSeq(s, 1, Len(s) - 1), chars)
    ELSE s

\* str.strip()
Strip(s) == RStripChars(LStripChars(s, Whitespace), Whitespace)

RECURSIVE Split(_, _)
\* str.split(sep) for a one-character separator
Split(s, sep) ==
    IF \E k \in 1..Len(s) : s[k] = sep
    THEN LET k == CHOOSE j \in 1..Len(s) :
                     s[j] = sep /\ \A h \in 1..(j - 1) : s[h] # sep
         IN  <<SubSeq(s, 1, k - 1)>> \o Split(SubSeq(s, k + 1, Len(s)), sep)
    ELSE <<s>>

RECURSIVE Join(_, _)
\* sep.join(parts)
Join(parts, sep) ==
    IF parts = << >> THEN << >>
    ELSE IF Len(parts) = 1 THEN parts[1]
    ELSE parts[1] \o sep \o Join(Tail(parts), sep)

\* s[:n]
Take(s, n) == SubSeq(s, 1, IF Len(s) < n THEN Len(s) ELSE n)

Digits == <<"0","1","2","3","4","5","6","7","8","9">>

RECURSIVE IntStr(_)
\* the decimal rendering of idx inside an f-string, f"{idx}"
IntStr(n) ==
    IF n < 10 THEN <<Digits[n + 1]>>
    ELSE IntStr(n \div 10) \o <<Digits[(n % 10) + 1]>>


(***************************************************************************)
(* Collaborators: what a call can return.                                  *)
(***************************************************************************)
SeqsUpTo(S, n) == UNION {[1..k -> S] : k \in 0..n}

\* the question typed by the user, stripped and non-empty (main)
Questions == {<<"L","L","M">>, <<"a","i">>}

\* queries the structured planner may put in its list
PlannerQueries == {<<"x">>, <<"y">>}

\* planner_llm.with_structured_output(QueryList).invoke(prompt).queries
PlannerOutcomes ==
    {[raises |-> TRUE, queries |-> << >>]}
    \cup {[raises |-> FALSE, queries |-> l] : l \in SeqsUpTo(PlannerQueries, MaxPlanned)}

\* one search hit: title, url, content, raw_content (<< >> when null or "")
Hits ==
    {[title |-> <<"T1">>, url |-> <<"U1">>, content |-> <<"snippet1">>,
      raw_content |-> <<"raw1">>],
     [title |-> <<"T2">>, url |-> <<"U2">>, content |-> <<"snippet2">>,
      raw_content |-> << >>]}

\* tavily_search(q, max_results=1, include_raw_content=True)
SearchOutcomes ==
    {[raises |-> TRUE, results |-> << >>]}
    \cup {[raises |-> FALSE, results |-> r] : r \in SeqsUpTo(Hits, MaxResults)}

\* planner_llm.invoke(synth_prompt).content
SummOutcomes ==
    {[raises |-> TRUE, content |-> << >>],
     [raises |-> FALSE, content |-> <<"summary">>]}

\* the summarizer is not called for this query
NotCalled == [raises |-> FALSE, content |-> <<"-">>]

\* str(e) of the exception a model call raises
Errors == {<<"timeout">>}

\* reasoning_llm.invoke(prompt).content / llm.invoke(prompt).content
FinalOutcomes ==
    {[raises |-> TRUE, err |-> e, content |-> << >>] : e \in Errors}
    \cup {[raises |-> FALSE, err |-> << >>, content |-> c] :
             c \in {<<"answer">>, << >>, <<" ">>}}

(***************************************************************************)
(* prompts.py                                                              *)
(***************************************************************************)
agent_prompt(user_input) ==
    <<"\nYou are a research planner.\n\nYou are working on a project that aims to answer user's questions\nusing sources found online.\n\nYour answer MUST be technical, using up-to-date information.\nCite facts, data and specific information.\n\nHere is the user input\n<USER_INPUT>\n">>
    \o user_input \o <<"\n</USER_INPUT>\n">>

resume_search(user_input, search_results) ==
    agent_prompt(user_input)
    \o <<"\nYour objective here is to analyze the web search results and make a synthesis,\nemphasising only what is relevant to the user's question.\n\nAfter your work, another agent will use the synthesis to build the final response,\nso keep only useful information. Be concise and clear.\n\nHere are the web search results:\n<SEARCH_RESULTS>\n">>
    \o search_results \o <<"\n</SEARCH_RESULTS>\n">>

build_final_response(user_input, search_results) ==
    agent_prompt(user_input)
    \o <<"\nYour objective is to develop a final response to the user using\nthe reports built during the web search.\n\nThe response should contain 500-800 words.\n\nHere are the search results:\n<SEARCH_RESULTS>\n">>
    \o search_results
    \o <<"\n</SEARCH_RESULTS>\n\nCite your references with numbered tags, e.g. [1], inside each paragraph.\n">>

(***************************************************************************)
(* perplexity.py: the three nodes.                                         *)
(***************************************************************************)
\* build_first_queries without its try/except: the planner's exception leaves the node
build_first_queries_uncaught(user_input, planner) ==
    IF planner.raises
    THEN [raised |-> TRUE, queries |-> << >>]
    ELSE [raised |-> FALSE, queries |-> planner.queries]

\* build_first_queries with the fallback of the optimized variant (lower-cased)
build_first_queries_lowered(user_input, planner) ==
    IF planner.raises
    THEN [raised |-> FALSE, queries |-> <<Lower(user_input)>>]
    ELSE [raised |-> FALSE, queries |-> planner.queries]

\* build_first_queries keeping only the first two of the planner's queries
build_first_queries_capped(user_input, planner) ==
    IF planner.raises
    THEN [raised |-> FALSE, queries |-> <<user_input>>]
    ELSE [raised |-> FALSE, queries |-> Take(planner.queries, 2)]

\* build_first_queries: the planner's list, or [user_input] when the
\* structured invocation raises.  raised: an exception leaves the node.
build_first_queries(user_input, planner) ==
    IF planner.raises
    THEN [raised |-> FALSE, queries |-> <<user_input>>]
    ELSE [raised |-> FALSE, queries |-> planner.queries]

\* QueryResult(title=..., url=..., resume=...)
QueryResult(title, url, resume) ==
    [title |-> title, url |-> url, resume |-> resume]

\* r.get("raw_content") or r["content"]
RawOf(r) == IF r.raw_content # << >> THEN r.raw_content ELSE r.content

\* serial_search recording a placeholder for a query without results
serial_search_body_placeholder(collected, user_input, q, search, summ) ==
    IF search.raises
    THEN [collected |-> collected, synth |-> << >>, raised |-> FALSE]
    ELSE IF search.results = << >>
    THEN [collected |-> Append(collected, QueryResult(q, << >>, << >>)),
          synth |-> << >>, raised |-> FALSE]
    ELSE LET r == search.results[1]
             synth_prompt == resume_search(user_input, RawOf(r))
         IN  IF summ.raises
             THEN [collected |-> collected, synth |-> <<synth_prompt>>,
                   raised |-> FALSE]
             ELSE [collected |->
                       Append(collected, QueryResult(r.title, r.url, summ.content)),
                   synth |-> <<synth_prompt>>, raised |-> FALSE]

\* serial_search without the try/except around the loop body
serial_search_body_uncaught(collected, user_input, q, search, summ) ==
    IF search.raises
    THEN [collected |-> collected, synth |-> << >>, raised |-> TRUE]
    ELSE IF search.results = << >>
    THEN [collected |-> collected, synth |-> << >>, raised |-> FALSE]
    ELSE LET r == search.results[1]
             synth_prompt == resume_search(user_input, RawOf(r))
         IN  IF summ.raises
             THEN [collected |-> collected, synth |-> <<synth_prompt>>,
                   raised |-> TRUE]
             ELSE [collected |->
                       Append(collected, QueryResult(r.title, r.url, summ.content)),
                   synth |-> <<synth_prompt>>, raised |-> FALSE]

\* serial_search keeping the raw content as resume instead of the summary
serial_search_body_rawresume(collected, user_input, q, search, summ) ==
    IF search.raises
    THEN [collected |-> collected, synth |-> << >>, raised |-> FALSE]
    ELSE IF search.results = << >>
    THEN [collected |-> collected, synth |-> << >>, raised |-> FALSE]
    ELSE LET r == search.results[1]
             synth_prompt == resume_search(user_input, RawOf(r))
         IN  IF summ.raises
             THEN [collected |-> collected, synth |-> <<synth_prompt>>,
                   raised |-> FALSE]
             ELSE [collected |->
                       Append(collected, QueryResult(r.title, r.url, RawOf(r))),
                   synth |-> <<synth_prompt>>, raised |-> FALSE]

\* one pass of the body of the for loop of serial_search over query q:
\* collected after the pass, the prompts sent to the summarizer, and whether
\* an exception leaves the loop body.
serial_search_body(collected, user_input, q, search, summ) ==
    IF search.raises
    THEN [collected |-> collected, synth |-> << >>, raised |-> FALSE]
    ELSE IF search.results = << >>
    THEN [collected |-> collected, synth |-> << >>, raised |-> FALSE]
    ELSE LET r == search.results[1]
             synth_prompt == resume_search(user_input, RawOf(r))
         IN  IF summ.raises
             THEN [collected |-> collected, synth |-> <<synth_prompt>>,
                   raised |-> FALSE]
             ELSE [collected |->
                       Append(collected, QueryResult(r.title, r.url, summ.content)),
                   synth |-> <<synth_prompt>>, raised |-> FALSE]

NoInfoBasic ==
    <<"Não foi possível encontrar informações relevantes para sua pergunta.">>

\* the body section of one Query Result in the long-form prompt
BodyPart(idx, res) ==
    <<"[">> \o IntStr(idx) \o <<"]\nTitle: ">> \o res.title \o <<"\nURL: ">>
    \o res.url \o <<"\nContent: ">> \o res.resume \o <<"\n----------------\n">>

\* a reference-list entry that also carries the resume of the Query Result
RefPart_resume(idx, res) ==
    <<"[">> \o IntStr(idx) \o <<"] - [">> \o res.title \o <<"](">> \o res.url
    \o <<")">> \o <<" ">> \o res.resume

\* the reference-list entry of one Query Result
RefPart(idx, res) ==
    <<"[">> \o IntStr(idx) \o <<"] - [">> \o res.title \o <<"](">> \o res.url
    \o <<")">>

\* body_parts after the loop of final_writer (enumerate(..., start=1))
BodyParts(results) == [n \in 1..Len(results) |-> BodyPart(n, results[n])]

\* ref_parts built over the results in reverse order
RefParts_reversed(results) ==
    [n \in 1..Len(results) |-> RefPart(n, results[Len(results) + 1 - n])]

\* ref_parts after the loop of final_writer
RefParts(results) == [n \in 1..Len(results) |-> RefPart(n, results[n])]

\* final_writer without the early return on an empty result list
final_writer_noguard(user_input, results, final) ==
    LET body_parts == BodyParts(results)
        ref_parts  == RefParts(results)
        prompt     == build_final_response(user_input, Join(body_parts, << >>))
    IN  [raised |-> FALSE,
         final_response |->
             final.content \o <<"\n\nReferences:\n">> \o Join(ref_parts, <<"\n">>),
         prompts |-> <<prompt>>,
         body_parts |-> body_parts, ref_parts |-> ref_parts]

\* final_writer appending the reference list to the error message too
final_writer_refs_on_error(user_input, results, final) ==
    IF results = << >>
    THEN [raised |-> FALSE, final_response |-> NoInfoBasic, prompts |-> << >>,
          body_parts |-> << >>, ref_parts |-> << >>]
    ELSE LET body_parts == BodyParts(results)
             ref_parts  == RefParts(results)
             prompt     == build_final_response(user_input, Join(body_parts, << >>))
         IN  [raised |-> FALSE,
              final_response |->
                  (IF final.raises
                   THEN <<"Erro ao gerar resposta: ">> \o final.err
                   ELSE final.content)
                  \o <<"\n\nReferences:\n">> \o Join(ref_parts, <<"\n">>),
              prompts |-> <<prompt>>,
              body_parts |-> body_parts, ref_parts |-> ref_parts]

\* final_writer: the fixed message without calling the model when there are
\* no results; else the model's text, the heading and the references, or the
\* error message when the model raises.
final_writer(user_input, results, final) ==
    IF results = << >>
    THEN [raised |-> FALSE, final_response |-> NoInfoBasic, prompts |-> << >>,
          body_parts |-> << >>, ref_parts |-> << >>]
    ELSE LET body_parts == BodyParts(results)
             ref_parts  == RefParts(results)
             prompt     == build_final_response(user_input, Join(body_parts, << >>))
         IN  [raised |-> FALSE,
              final_response |->
                  IF final.raises
                  THEN <<"Erro ao gerar resposta: ">> \o final.err
                  ELSE final.content \o <<"\n\nReferences:\n">>
                       \o Join(ref_parts, <<"\n">>),
              prompts |-> <<prompt>>,
              body_parts |-> body_parts, ref_parts |-> ref_parts]

(***************************************************************************)
(* perplexity_optimized.py: the three nodes.                               *)
(***************************************************************************)
ContentLimit == 1000

\* lines the free-text planner may write
PlannerLines ==
    {<<"-"," ","a","b","c","d">>,
     <<"1","."," ","w","x","y","z">>,
     <<"2","."," ","a","b">>}

\* llm.invoke(prompt) of generate_queries: response.content
PlannerTextOutcomes ==
    {[raises |-> TRUE, content |-> << >>]}
    \cup {[raises |-> FALSE, content |-> Join(ls, <<"\n">>)] :
             ls \in SeqsUpTo(PlannerLines, MaxLines)}

\* line.strip().lstrip('- ').lstrip('1234567890. ')
CleanLine(line) ==
    LStripChars(LStripChars(Strip(line), {"-", " "}),
                {"1","2","3","4","5","6","7","8","9","0","."," "})

RECURSIVE ParseLines(_)
\* the loop over lines of generate_queries: the cleaned lines longer than 3
ParseLines(lines) ==
    IF lines = << >> THEN << >>
    ELSE LET line == CleanLine(Head(lines))
         IN  (IF line # << >> /\ Len(line) > 3 THEN <<line>> ELSE << >>)
             \o ParseLines(Tail(lines))

\* the three templated queries used when no line is usable
TemplateQueries(base_terms) ==
    <<base_terms \o <<" ","e","x","p","l","a","i","n","e","d">>,
      <<"w","h","a","t"," ","i","s"," ">> \o base_terms,
      <<"h","o","w"," ","d","o","e","s"," ">> \o base_terms
          \o <<" ","w","o","r","k">>>>

\* the except branch of generate_queries falling back to the question alone
FallbackQueries_single(user_input) == <<user_input>>

\* the queries returned by the except branch of generate_queries
FallbackQueries(user_input) ==
    LET base == Lower(user_input)
    IN  <<base, <<"w","h","a","t"," ","i","s"," ">> \o base>>

\* generate_queries building the templated queries from the question as typed
generate_queries_nolower(user_input, planner) ==
    IF planner.raises
    THEN [raised |-> FALSE, queries |-> FallbackQueries(user_input)]
    ELSE LET lines  == Split(Strip(planner.content), "\n")
             parsed == ParseLines(lines)
             queries == IF parsed = << >>
                        THEN TemplateQueries(user_input)
                        ELSE parsed
         IN  [raised |-> FALSE, queries |-> Take(queries, 3)]

\* generate_queries: the first three usable lines of the model's answer, the
\* three templated queries when no line is usable, the fallback pair when
\* the model raises.
generate_queries(user_input, planner) ==
    IF planner.raises
    THEN [raised |-> FALSE, queries |-> FallbackQueries(user_input)]
    ELSE LET lines  == Split(Strip(planner.content), "\n")
             parsed == ParseLines(lines)
             queries == IF parsed = << >>
                        THEN TemplateQueries(Lower(user_input))
                        ELSE parsed
         IN  [raised |-> FALSE, queries |-> Take(queries, 3)]

\* one pass of the body of the for loop of execute_search; the try encloses
\* the whole loop, so a raising search call ends the loop (stopped).
execute_search_body(collected, search) ==
    IF search.raises
    THEN [collected |-> collected, stopped |-> TRUE, raised |-> FALSE]
    ELSE IF search.results = << >>
    THEN [collected |-> collected, stopped |-> FALSE, raised |-> FALSE]
    ELSE LET r == search.results[1]
             content == Take(RawOf(r), ContentLimit)
         IN  [collected |-> Append(collected, QueryResult(r.title, r.url, content)),
              stopped |-> FALSE, raised |-> FALSE]

NoInfoOptimized ==
    <<"Não foi possível encontrar informações relevantes.">>

FINAL_PROMPT(user_input, search_results) ==
    <<"You are an AI assistant providing comprehensive answers using clean Markdown formatting.\n\nQuestion: ">>
    \o user_input \o <<"\n\nSearch Results:\n">> \o search_results
    \o <<"\n\nWrite a detailed answer using ONLY standard Markdown formatting:\n- Use # for main title, ## for major sections, ### for subsections\n- Use **bold** for important terms\n- Use - for bullet points (single dash with space)\n- Use numbered lists (1. 2. 3.) for sequential steps\n- Use > for important quotes or key insights\n- Reference sources as [1], [2] naturally in text\n- Keep paragraphs clean with line breaks\n- Structure: Introduction → Key Concepts → Details → Applications\n\nWrite in clean Markdown format:\n\n# ">>
    \o user_input
    \o <<"\n\n[Your detailed answer here using proper Markdown]\n\n## Sources\n[You don't need to write sources section, just the answer]\n">>

\* search_context after the loop of write_response
SearchContext(results) ==
    [n \in 1..Len(results) |->
        <<"[">> \o IntStr(n) \o <<"] ">> \o results[n].title \o <<": ">>
        \o results[n].resume]

\* write_response without its try/except: the model's exception leaves the node
write_response_uncaught(user_input, results, final) ==
    IF results = << >>
    THEN [raised |-> FALSE, final_response |-> NoInfoOptimized, prompts |-> << >>]
    ELSE LET context == Join(SearchContext(results), <<"\n\n">>)
             prompt  == FINAL_PROMPT(user_input, context)
         IN  [raised |-> final.raises,
              final_response |-> Strip(final.content),
              prompts |-> <<prompt>>]

\* write_response appending a reference list as final_writer does
write_response_with_refs(user_input, results, final) ==
    IF results = << >>
    THEN [raised |-> FALSE, final_response |-> NoInfoOptimized, prompts |-> << >>]
    ELSE LET context == Join(SearchContext(results), <<"\n\n">>)
             prompt  == FINAL_PROMPT(user_input, context)
         IN  [raised |-> FALSE,
              final_response |->
                  IF final.raises
                  THEN <<"Erro ao gerar resposta: ">> \o final.err
                  ELSE Strip(final.content) \o <<"\n\nReferences:\n">>
                       \o Join(RefParts(results), <<"\n">>),
              prompts |-> <<prompt>>]

\* write_response: the fixed message without calling the model when there are
\* no results; else the model's text stripped, or the error message when the
\* model raises.
write_response(user_input, results, final) ==
    IF results = << >>
    THEN [raised |-> FALSE, final_response |-> NoInfoOptimized, prompts |-> << >>]
    ELSE LET context == Join(SearchContext(results), <<"\n\n">>)
             prompt  == FINAL_PROMPT(user_input, context)
         IN  [raised |-> FALSE,
              final_response |->
                  IF final.raises
                  THEN <<"Erro ao gerar resposta: ">> \o final.err
                  ELSE Strip(final.content),
              prompts |-> <<prompt>>]

(***************************************************************************)
(* One run of the compiled graph (create_graph, graph.invoke / stream).    *)
(***************************************************************************)
VARIABLES
    variant,          \* "basic": perplexity.py, "optimized": perplexity_optimized.py
    pc,               \* node about to run: plan, search, write; done; aborted
    user_input,       \* ReportState.user_input
    queries,          \* ReportState.queries
    queries_results,  \* ReportState.queries_results
    final_response,   \* ReportState.final_response
    i,                \* 1-based position of the search loop in queries
    collected,        \* local list of the search node
    stopped,          \* the search loop was left through the except clause
    plan,             \* what the planner call did (<< >> before the call)
    search_log,       \* per search call: the query, the response, the summarizer's behaviour
    synth_log,        \* prompts sent to the summarizer
    final_log,        \* prompts sent to the final-answer model
    final,            \* what the final-answer call did (<< >> when not called)
    body_parts,       \* local list of final_writer
    ref_parts         \* local list of final_writer

state == <<user_input, queries, queries_results, final_response>>
locals == <<i, collected, stopped, body_parts, ref_parts>>
logs == <<plan, search_log, synth_log, final_log, final>>
vars == <<variant, pc, state, locals, logs>>

\* ReportState(user_input=question.strip()) with the defaults of schemas.py
Init ==
    /\ variant \in {"basic", "optimized"}
    /\ pc = "plan"
    /\ user_input \in Questions
    /\ queries = << >>
    /\ queries_results = << >>
    /\ final_response = << >>
    /\ i = 1
    /\ collected = << >>
    /\ stopped = FALSE
    /\ plan = << >>
    /\ search_log = << >>
    /\ synth_log = << >>
    /\ final_log = << >>
    /\ final = << >>
    /\ body_parts = << >>
    /\ ref_parts = << >>

\* an exception that leaves a node leaves graph.invoke; the update is not merged
Abort == pc' = "aborted"

\* the search call made with the default max_results of tavily_search
SearchCall_default(q) ==
    [query |-> q, max_results |-> 3, include_raw_content |-> TRUE]

\* the arguments of tavily_search(q, max_results=1, include_raw_content=True)
SearchCall(q) ==
    [query |-> q, max_results |-> 1, include_raw_content |-> TRUE]

\* what one search call and the summarizer did, as seen by the loop body
LogEntry(q, search, summ) ==
    [query |-> q, call |-> SearchCall(q), raises |-> search.raises,
     top |-> Take(search.results, 1), summ |-> summ]

HasHit(search) == ~search.raises /\ search.results # << >>

\* node build_queries of perplexity.py
BuildFirstQueries ==
    /\ variant = "basic" /\ pc = "plan"
    /\ \E planner \in PlannerOutcomes :
          LET out == build_first_queries(user_input, planner)
          IN  /\ plan' = <<planner>>
              /\ IF out.raised
                 THEN Abort /\ UNCHANGED queries
                 ELSE pc' = "search" /\ queries' = out.queries
    /\ UNCHANGED <<variant, user_input, queries_results, final_response,
                   locals, search_log, synth_log, final_log, final>>

\* one iteration of the for loop of serial_search
SerialSearchStep ==
    /\ variant = "basic" /\ pc = "search" /\ i <= Len(queries)
    /\ \E search \in SearchOutcomes :
       \E summ \in (IF HasHit(search) THEN SummOutcomes ELSE {NotCalled}) :
          LET out == serial_search_body(collected, user_input, queries[i],
                                        search, summ)
          IN  /\ search_log' = Append(search_log, LogEntry(queries[i], search, summ))
              /\ synth_log' = synth_log \o out.synth
              /\ IF out.raised
                 THEN Abort /\ UNCHANGED <<i, collected>>
                 ELSE pc' = pc /\ i' = i + 1 /\ collected' = out.collected
    /\ UNCHANGED <<variant, state, stopped, body_parts, ref_parts, plan,
                   final_log, final>>

\* serial_search returning a whole state in which queries is reset
SerialSearchReturn_clobber ==
    /\ variant = "basic" /\ pc = "search" /\ i > Len(queries)
    /\ queries_results' = collected
    /\ queries' = << >>
    /\ pc' = "write"
    /\ UNCHANGED <<variant, user_input, final_response, locals, logs>>

\* the return of serial_search, merged into the state
SerialSearchReturn ==
    /\ variant = "basic" /\ pc = "search" /\ i > Len(queries)
    /\ queries_results' = collected
    /\ pc' = "write"
    /\ UNCHANGED <<variant, user_input, queries, final_response, locals, logs>>

\* node final_writer of perplexity.py
FinalWriter ==
    /\ variant = "basic" /\ pc = "write"
    /\ \E fin \in (IF queries_results = << >> THEN {NotCalled} ELSE FinalOutcomes) :
          LET out == final_writer(user_input, queries_results, fin)
          IN  /\ final_log' = final_log \o out.prompts
              /\ final' = IF out.prompts = << >> THEN << >> ELSE <<fin>>
              /\ body_parts' = out.body_parts
              /\ ref_parts' = out.ref_parts
              /\ IF out.raised
                 THEN Abort /\ UNCHANGED final_response
                 ELSE pc' = "done" /\ final_response' = out.final_response
    /\ UNCHANGED <<variant, user_input, queries, queries_results, i, collected,
                   stopped, plan, search_log, synth_log>>

\* node generate_queries of perplexity_optimized.py
GenerateQueries ==
    /\ variant = "optimized" /\ pc = "plan"
    /\ \E planner \in PlannerTextOutcomes :
          LET out == generate_queries(user_input, planner)
          IN  /\ plan' = <<planner>>
              /\ IF out.raised
                 THEN Abort /\ UNCHANGED queries
                 ELSE pc' = "search" /\ queries' = out.queries
    /\ UNCHANGED <<variant, user_input, queries_results, final_response,
                   locals, search_log, synth_log, final_log, final>>

\* one iteration of the for loop of execute_search
ExecuteSearchStep ==
    /\ variant = "optimized" /\ pc = "search" /\ ~stopped /\ i <= Len(queries)
    /\ \E search \in SearchOutcomes :
          LET out == execute_search_body(collected, search)
          IN  /\ search_log' = Append(search_log, LogEntry(queries[i], search, NotCalled))
              /\ IF out.raised
                 THEN Abort /\ UNCHANGED <<i, collected, stopped>>
                 ELSE /\ pc' = pc
                      /\ stopped' = out.stopped
                      /\ i' = IF out.stopped THEN i ELSE i + 1
                      /\ collected' = out.collected
    /\ UNCHANGED <<variant, state, body_parts, ref_parts, plan, synth_log,
                   final_log, final>>

\* the return of execute_search, merged into the state
ExecuteSearchReturn ==
    /\ variant = "optimized" /\ pc = "search"
    /\ stopped \/ i > Len(queries)
    /\ queries_results' = collected
    /\ pc' = "write"
    /\ UNCHANGED <<variant, user_input, queries, final_response, locals, logs>>

\* node write_response of perplexity_optimized.py
WriteResponse ==
    /\ variant = "optimized" /\ pc = "write"
    /\ \E fin \in (IF queries_results = << >> THEN {NotCalled} ELSE FinalOutcomes) :
          LET out == write_response(user_input, queries_results, fin)
          IN  /\ final_log' = final_log \o out.prompts
              /\ final' = IF out.prompts = << >> THEN << >> ELSE <<fin>>
              /\ IF out.raised
                 THEN Abort /\ UNCHANGED final_response
                 ELSE pc' = "done" /\ final_response' = out.final_response
    /\ UNCHANGED <<variant, user_input, queries, queries_results, locals,
                   plan, search_log, synth_log>>

Next ==
    \/ BuildFirstQueries
    \/ SerialSearchStep
    \/ SerialSearchReturn
    \/ FinalWriter
    \/ GenerateQueries
    \/ ExecuteSearchStep
    \/ ExecuteSearchReturn
    \/ WriteResponse

Spec == Init /\ [][Next]_vars

\* graph.invoke runs every node to its end: no node waits on anything
FairSpec == Spec /\ WF_vars(Next)

TypeOK ==
    /\ variant \in {"basic", "optimized"}
    /\ pc \in {"plan", "search", "write", "done", "aborted"}
    /\ i \in 1..(Len(queries) + 1)
    /\ Len(collected) <= Len(queries)

(***************************************************************************)
(* Reading the logs and the rendered parts.                                *)
(***************************************************************************)
\* the planner call was made and raised
PlannerFailed == plan # << >> /\ plan[1].raises

\* the final-answer model was called and raised
FinalFailed == final # << >> /\ final[1].raises

\* the search call of a log entry raised, or it returned no result
NoHit(e) == e.raises \/ e.top = << >>

\* an exception was raised while the query of a log entry was processed
Threw(e) == e.raises \/ (e.top # << >> /\ e.summ.raises)

\* the query of a log entry went through search and summarization
Succeeded(e) == ~NoHit(e) /\ ~e.summ.raises

RECURSIVE ExpectedResults(_)
\* title and URL of the top hit and the summary, for the entries that succeeded
ExpectedResults(log) ==
    IF log = << >> THEN << >>
    ELSE (IF Succeeded(Head(log))
          THEN <<[title |-> Head(log).top[1].title, url |-> Head(log).top[1].url,
                  resume |-> Head(log).summ.content]>>
          ELSE << >>)
         \o ExpectedResults(Tail(log))

\* position of the first occurrence of atom a in s
IndexOf(s, a) ==
    CHOOSE k \in 1..Len(s) : s[k] = a /\ \A h \in 1..(k - 1) : s[h] # a

\* the text of s between the first a and the first b
Between(s, a, b) == SubSeq(s, IndexOf(s, a) + 1, IndexOf(s, b) - 1)

\* sub occurs in s
IsInfix(sub, s) ==
    \E k \in 0..(Len(s) - Len(sub)) : SubSeq(s, k + 1, k + Len(sub)) = sub

PairwiseDistinct(qs) ==
    \A a, b \in 1..Len(qs) : a # b => qs[a] # qs[b]

\* between 1 and 5 pairwise distinct queries
WellFormedPlan(qs) == Len(qs) \in 1..5 /\ PairwiseDistinct(qs)

(***************************************************************************)
(* Claims.                                                                 *)
(***************************************************************************)

\* C1: in perplexity.py, whatever the planner, the search call, the
\* summarizer and the long-form model do (return or raise), a run of
\* build_queries -> serial_search -> final_writer ends, no exception leaves
\* the run, and the final_response it ends with is a non-empty string.
C1_Totality ==
    /\ [](variant = "basic" => pc # "aborted")
    /\ [](variant = "basic" /\ pc = "done" => final_response # << >>)
    /\ ((variant = "basic") ~> (pc = "done"))

\* a run of perplexity.py that ended with an answer although the planner and
\* the long-form model both raised
C1_Witness ==
    /\ variant = "basic" /\ pc = "done"
    /\ PlannerFailed /\ FinalFailed
    /\ final_response # << >>

\* C2: when the structured planner invocation of build_first_queries fails,
\* queries is exactly [user_input], the question unmodified, and serial_search
\* then runs with that single query.
C2_PlannerFallback ==
    (variant = "basic" /\ PlannerFailed) =>
        /\ pc # "aborted"
        /\ queries = <<user_input>>
        /\ pc \in {"write", "done"} =>
              Len(search_log) = 1 /\ search_log[1].query = user_input

\* the planner raised on a question with capitals and the question itself
\* was searched
C2_Witness ==
    /\ variant = "basic" /\ pc = "done" /\ PlannerFailed
    /\ user_input = <<"L","L","M">>
    /\ search_log # << >> /\ search_log[1].query = <<"L","L","M">>
    /\ ~NoHit(search_log[1])

\* C3, as stated: when the planner invocation of generate_queries fails,
\* queries is exactly [original_question].
C3_Original ==
    (variant = "optimized" /\ PlannerFailed) => queries = <<user_input>>

\* C3, amended: when the planner invocation of generate_queries fails,
\* queries has exactly two elements: the question lower-cased, and
\* "what is " followed by the question lower-cased.
C3_FallbackPair ==
    (variant = "optimized" /\ PlannerFailed) =>
        /\ pc # "aborted"
        /\ Len(queries) = 2
        /\ queries[1] = Lower(user_input)
        /\ queries[2] = <<"w","h","a","t"," ","i","s"," ">> \o Lower(user_input)

\* the planner of the optimized variant raised on a question with capitals
C3_Witness ==
    /\ variant = "optimized" /\ pc = "search" /\ PlannerFailed
    /\ user_input = <<"L","L","M">>
    /\ queries[1] = <<"l","l","m">>

\* C4, as stated: whatever the planner does, the queries written by
\* build_first_queries are between 1 and 5 and pairwise distinct.
C4_Original ==
    (variant = "basic" /\ pc \in {"search", "write", "done"}) =>
        WellFormedPlan(queries)

\* C4, amended: build_first_queries writes the planner's list unchanged when
\* the planner returns, so queries has between 1 and 5 pairwise distinct
\* elements when the planner fails or its list has; an empty list, a longer
\* one or one with repetitions is written as it is.
C4_PlannerPassThrough ==
    (variant = "basic" /\ pc \in {"search", "write", "done"}) =>
        /\ (~plan[1].raises => queries = plan[1].queries)
        /\ (plan[1].raises \/ WellFormedPlan(plan[1].queries)) =>
              WellFormedPlan(queries)

\* the planner returned three queries, two of them equal, and all three were
\* searched
C4_Witness ==
    /\ variant = "basic" /\ pc = "done" /\ ~plan[1].raises
    /\ Len(queries) = 3 /\ queries[1] = queries[3] /\ queries[1] # queries[2]
    /\ Len(search_log) = 3

\* C5: in both variants, when every search call returned no result or
\* raised, queries_results is empty, final_response is the variant's fixed
\* message and the final-answer model was not invoked.
C5_NoInformation ==
    (pc = "done" /\ \A k \in 1..Len(search_log) : NoHit(search_log[k])) =>
        /\ queries_results = << >>
        /\ final_log = << >> /\ final = << >>
        /\ variant = "basic" => final_response =
              <<"Não foi possível encontrar informações relevantes para sua pergunta.">>
        /\ variant = "optimized" => final_response =
              <<"Não foi possível encontrar informações relevantes.">>

\* a run of perplexity.py whose two searches failed, one by raising and one
\* with zero results
C5_Witness ==
    /\ variant = "basic" /\ pc = "done" /\ Len(search_log) = 2
    /\ search_log[1].raises
    /\ ~search_log[2].raises /\ search_log[2].top = << >>

\* C6: in perplexity.py, queries_results holds one Query Result per query
\* that succeeded, in the order of the planned queries, and final_writer
\* labels them 1..m without gaps in the body sections and in the references.
C6_DenseNumbering ==
    (variant = "basic" /\ pc \in {"write", "done"}) =>
        /\ queries_results = ExpectedResults(search_log)
        /\ (pc = "done" /\ queries_results # << >>) =>
              /\ Len(body_parts) = Len(queries_results)
              /\ Len(ref_parts) = Len(queries_results)
              /\ \A n \in 1..Len(queries_results) :
                    /\ Between(body_parts[n], "[", "]\nTitle: ") = IntStr(n)
                    /\ Between(ref_parts[n], "[", "] - [") = IntStr(n)

\* three planned queries, the second without results: two references
C6_Witness ==
    /\ variant = "basic" /\ pc = "done" /\ Len(search_log) = 3
    /\ Succeeded(search_log[1]) /\ Succeeded(search_log[3])
    /\ ~search_log[2].raises /\ search_log[2].top = << >>
    /\ Len(ref_parts) = 2

\* C7: in final_writer, the reference entry n has the title and the URL of
\* the body section labeled [n] of the prompt sent to the long-form model,
\* and there are as many entries as sections.
C7_CrossConsistency ==
    (variant = "basic" /\ pc = "done" /\ queries_results # << >>) =>
        /\ Len(ref_parts) = Len(body_parts)
        /\ Len(final_log) = 1
        /\ IsInfix(Join(body_parts, << >>), final_log[1])
        /\ \A n \in 1..Len(body_parts) :
              /\ Between(ref_parts[n], "[", "] - [")
                    = Between(body_parts[n], "[", "]\nTitle: ")
              /\ Between(ref_parts[n], "] - [", "](")
                    = Between(body_parts[n], "]\nTitle: ", "\nURL: ")
              /\ Between(ref_parts[n], "](", ")")
                    = Between(body_parts[n], "\nURL: ", "\nContent: ")

\* two Query Results with different titles were rendered
C7_Witness ==
    /\ variant = "basic" /\ pc = "done" /\ Len(queries_results) = 2
    /\ queries_results[1].title # queries_results[2].title
    /\ Len(ref_parts) = 2

\* C8: in serial_search, an exception of the search call or the summarizer
\* for a query is caught: the step adds nothing to the accumulated results,
\* keeps what was accumulated, and the loop goes on to the next query, so
\* every query planned after it is searched.
C8_FailureIsolation ==
    /\ [](variant = "basic" /\ pc \in {"write", "done"} =>
            \A k \in 1..Len(search_log) : Threw(search_log[k]) =>
                \A j \in (k + 1)..Len(queries) :
                    j <= Len(search_log) /\ search_log[j].query = queries[j])
    /\ [][(/\ variant = "basic" /\ pc = "search"
           /\ Len(search_log') = Len(search_log) + 1
           /\ Threw(search_log'[Len(search_log')]))
          => (collected' = collected /\ i' = i + 1 /\ pc' = "search")]_vars

\* a result, then a raising search, then a result again: the first result
\* was kept and the last query searched
C8_Witness ==
    /\ variant = "basic" /\ pc = "done" /\ Len(search_log) = 3
    /\ Succeeded(search_log[1])
    /\ search_log[2].raises
    /\ Succeeded(search_log[3])
    /\ Len(queries_results) = 2

\* C9, as stated: in execute_search an exception while a query is processed
\* is caught, the query contributes nothing, and every query planned after
\* it is still searched.
C9_Original ==
    (variant = "optimized" /\ pc \in {"write", "done"}) =>
        \A k \in 1..Len(search_log) : Threw(search_log[k]) =>
            \A j \in (k + 1)..Len(queries) :
                j <= Len(search_log) /\ search_log[j].query = queries[j]

\* C10: when queries_results is not empty and the final-answer model raises,
\* final_writer and write_response do not raise; final_response is the error
\* message with the error's description, without a "References:" heading or
\* reference list.
C10_SynthesisFailure ==
    (queries_results # << >> /\ FinalFailed) =>
        /\ pc = "done"
        /\ final_response = <<"Erro ao gerar resposta: ">> \o final[1].err
        /\ \A k \in 1..Len(final_response) :
              final_response[k] # "\n\nReferences:\n"
        /\ \A n \in 1..Len(queries_results) :
              ~IsInfix(RefPart(n, queries_results[n]), final_response)

\* the long-form model of perplexity.py raised with a description after two
\* results were collected
C10_Witness ==
    /\ variant = "basic" /\ pc = "done" /\ FinalFailed
    /\ final[1].err = <<"timeout">>
    /\ Len(queries_results) = 2

\* C11: in serial_search the search collaborator is called once per planned
\* query, in planned order, each time with max_results = 1: while the loop
\* runs the calls made are those for the first i - 1 queries, a step makes
\* exactly the call for query i whatever the earlier calls did, and when the
\* loop has ended there are as many calls as planned queries.
C11_OneCallPerQuery ==
    /\ [](variant = "basic" =>
            /\ Len(search_log) <= Len(queries)
            /\ pc = "search" => Len(search_log) = i - 1
            /\ pc \in {"write", "done"} => Len(search_log) = Len(queries)
            /\ \A k \in 1..Len(search_log) :
                  /\ search_log[k].call.query = queries[k]
                  /\ search_log[k].call.max_results = 1)
    /\ [][(variant = "basic" /\ search_log' # search_log) =>
            /\ pc = "search" /\ i <= Len(queries) /\ i' = i + 1
            /\ Len(search_log') = Len(search_log) + 1
            /\ SubSeq(search_log', 1, Len(search_log)) = search_log
            /\ search_log'[i].call.query = queries[i]]_vars

\* three planned queries, the first repeated as the third; the first search
\* raised, the second returned nothing, and all three were searched
C11_Witness ==
    /\ variant = "basic" /\ pc = "write" /\ Len(queries) = 3
    /\ queries[1] = queries[3] /\ queries[1] # queries[2]
    /\ Len(search_log) = 3
    /\ search_log[1].raises
    /\ ~search_log[2].raises /\ search_log[2].top = << >>
    /\ search_log[3].call.query = queries[1]

\* C12: a run starts with only user_input set and goes through the planner,
\* the search loop and the final synthesizer once each, in that order; the
\* planner writes only queries, the search loop only queries_results, the
\* synthesizer only final_response, so user_input never changes and queries
\* does not change after the planner.
C12_StageFrames ==
    /\ [](pc = "plan" =>
            /\ user_input # << >>
            /\ queries = << >> /\ queries_results = << >>
            /\ final_response = << >>)
    /\ [](pc = "search" => queries_results = << >> /\ final_response = << >>)
    /\ [](pc = "write" => final_response = << >>)
    /\ [][/\ user_input' = user_input
          /\ pc = "plan" =>
                pc' = "search" /\ UNCHANGED <<queries_results, final_response>>
          /\ pc = "search" =>
                /\ pc' \in {"search", "write"}
                /\ UNCHANGED <<queries, final_response>>
                /\ pc' = "search" => UNCHANGED queries_results
          /\ pc = "write" =>
                pc' = "done" /\ UNCHANGED <<queries, queries_results>>
          /\ pc \notin {"plan", "search", "write"} => UNCHANGED <<pc, state>>]_vars

\* a finished run of perplexity.py in which each stage has written its field
\* and the planner's three queries are still in the state
C12_Witness ==
    /\ variant = "basic" /\ pc = "done"
    /\ ~plan[1].raises /\ Len(plan[1].queries) = 3 /\ queries = plan[1].queries
    /\ Len(queries_results) = 2
    /\ final_response # << >>

\* the final-answer model was called and returned
FinalReturned == final # << >> /\ ~final[1].raises

\* C13: in final_writer, when queries_results is not empty and the long-form
\* model returns, final_response is the model's output, then the
\* "References:" heading, then one line "[n] - [title](url)" per Query Result
\* in accumulation order; the lines are made of the positions, titles and
\* URLs only.
C13_AnswerThenReferences ==
    (variant = "basic" /\ pc = "done" /\ queries_results # << >> /\ FinalReturned) =>
        final_response =
            final[1].content \o <<"\n\nReferences:\n">>
            \o Join([n \in 1..Len(queries_results) |->
                        <<"[", Digits[n + 1], "] - [">>
                        \o queries_results[n].title \o <<"](">>
                        \o queries_results[n].url \o <<")">>],
                    <<"\n">>)

\* the long-form model returned an answer over three Query Results, the
\* first two with different titles
C13_Witness ==
    /\ variant = "basic" /\ pc = "done" /\ FinalReturned
    /\ final[1].content = <<"answer">>
    /\ Len(queries_results) = 3
    /\ queries_results[1].title # queries_results[2].title

\* every character of s is white space (s may be empty)
Blank(s) == \A k \in 1..Len(s) : s[k] \in Whitespace

\* C14, as stated: in perplexity_optimized.py, whatever the model and the
\* search call do, a run of generate_queries -> execute_search ->
\* write_response ends and its final_response is a non-empty string.
C14_Original ==
    /\ [](variant = "optimized" /\ pc = "done" => final_response # << >>)
    /\ ((variant = "optimized") ~> (pc = "done"))

\* C14, amended: a run of perplexity_optimized.py ends and no exception
\* leaves it; its final_response is a non-empty string except when
\* queries_results is not empty and the model returns a text that is empty or
\* all white space: then final_response is the empty string.
C14_TotalityUpToBlankAnswer ==
    /\ [](variant = "optimized" => pc # "aborted")
    /\ [](variant = "optimized" /\ pc = "done" =>
            (final_response = << >>
                <=> (queries_results # << >> /\ FinalReturned
                     /\ Blank(final[1].content))))
    /\ ((variant = "optimized") ~> (pc = "done"))

\* a run of perplexity_optimized.py that ended, after the planner raised,
\* with two results and a final model that returned a single space: the
\* answer is the empty string
C14_Witness ==
    /\ variant = "optimized" /\ pc = "done"
    /\ PlannerFailed /\ FinalReturned
    /\ Len(queries_results) = 2
    /\ final[1].content = <<" ">>
    /\ final_response = << >>

\* C15, as stated: in write_response, when queries_results is not empty and
\* the model returns, final_response is the model's output, then a
\* "References:" heading, then one "[n] - [title](url)" entry per Query
\* Result in accumulation order.
C15_Original ==
    (variant = "optimized" /\ pc = "done" /\ queries_results # << >> /\ FinalReturned) =>
        final_response =
            final[1].content \o <<"\n\nReferences:\n">>
            \o Join([n \in 1..Len(queries_results) |->
                        <<"[", Digits[n + 1], "] - [">>
                        \o queries_results[n].title \o <<"](">>
                        \o queries_results[n].url \o <<")">>],
                    <<"\n">>)

\* C15, amended: in write_response, when queries_results is not empty and
\* the model returns, final_response is the model's output without its
\* leading and trailing white space, and nothing else: no "References:"
\* heading and no reference entry follows it.
C15_StrippedAnswerOnly ==
    (variant = "optimized" /\ pc = "done" /\ queries_results # << >> /\ FinalReturned) =>
        /\ IsInfix(final_response, final[1].content)
        /\ final_response # << >> =>
              /\ final_response[1] \notin Whitespace
              /\ final_response[Len(final_response)] \notin Whitespace
        /\ \E a, b \in 0..Len(final[1].content) :
              /\ a + Len(final_response) + b = Len(final[1].content)
              /\ Blank(SubSeq(final[1].content, 1, a))
              /\ Blank(SubSeq(final[1].content, Len(final[1].content) - b + 1,
                              Len(final[1].content)))
              /\ SubSeq(final[1].content, a + 1, a + Len(final_response))
                    = final_response
        /\ \A k \in 1..Len(final_response) :
              final_response[k] # "\n\nReferences:\n"
        /\ \A n \in 1..Len(queries_results) :
              ~IsInfix(<<"](">> \o queries_results[n].url \o <<")">>,
                       final_response)

\* the model of perplexity_optimized.py returned an answer over two Query
\* Results and the answer alone is the final response
C15_Witness ==
    /\ variant = "optimized" /\ pc = "done" /\ FinalReturned
    /\ Len(queries_results) = 2
    /\ final[1].content = <<"answer">>
    /\ final_response = <<"answer">>

RECURSIVE SummarizedContents(_)
\* the content handed to the summarizer for each logged search that returned
\* a result: the raw content of its top hit, or the snippet when there is none
SummarizedContents(log) ==
    IF log = << >> THEN << >>
    ELSE (IF NoHit(Head(log)) THEN << >>
          ELSE <<IF Head(log).top[1].raw_content # << >>
                 THEN Head(log).top[1].raw_content
                 ELSE Head(log).top[1].content>>)
         \o SummarizedContents(Tail(log))

\* C16: in serial_search a Query Result is appended for a query only when its
\* search returned a result and the summarizer returned; the summarizer is
\* called once for each query whose search returned a result, with that
\* result's content, and for no other query; an appended Query Result has
\* the title and the URL of the top hit and the summarizer's output as
\* resume, so the accumulated list never holds a partial or placeholder one.
C16_WholeResultsOnly ==
    /\ [](variant = "basic" =>
            /\ collected = ExpectedResults(search_log)
            /\ Len(synth_log) = Len(SummarizedContents(search_log))
            /\ \A j \in 1..Len(synth_log) :
                  /\ IsInfix(SummarizedContents(search_log)[j], synth_log[j])
                  /\ IsInfix(user_input, synth_log[j])
            /\ \A n \in 1..Len(collected) :
                  /\ collected[n].title # << >>
                  /\ collected[n].url # << >>
                  /\ collected[n].resume = <<"summary">>)
    /\ [][(variant = "basic" /\ collected' # collected) =>
            LET e == search_log'[Len(search_log')]
            IN  /\ Len(search_log') = Len(search_log) + 1
                /\ ~e.raises /\ e.top # << >> /\ ~e.summ.raises
                /\ Len(synth_log') = Len(synth_log) + 1
                /\ collected' = Append(collected,
                                       [title |-> e.top[1].title,
                                        url |-> e.top[1].url,
                                        resume |-> e.summ.content])]_vars

\* three searches: a hit that was summarized, a hit whose summarizer call
\* raised, and no result: two summarizer calls and one Query Result
C16_Witness ==
    /\ variant = "basic" /\ pc = "search" /\ Len(search_log) = 3
    /\ Succeeded(search_log[1])
    /\ ~NoHit(search_log[2]) /\ search_log[2].summ.raises
    /\ ~search_log[3].raises /\ search_log[3].top = << >>
    /\ Len(synth_log) = 2
    /\ Len(collected) = 1

\* the usable lines of the planner's answer: its lines without bullet or
\* numbering, longer than 3 characters, in the order the model wrote them
UsableLines == ParseLines(Split(Strip(plan[1].content), "\n"))

\* C17: on every path of generate_queries the query sequence has between 1
\* and 3 elements; when no line of the model's answer is usable it is the
\* three templated queries built from the lower-cased question; otherwise
\* it is the first 3 usable lines at most, in the order of the answer.
C17_PlannedQueriesOptimized ==
    (variant = "optimized" /\ pc # "plan") =>
        /\ pc # "aborted"
        /\ Len(queries) \in 1..3
        /\ (~plan[1].raises /\ UsableLines = << >>) =>
              queries =
                <<Lower(user_input) \o <<" ","e","x","p","l","a","i","n","e","d">>,
                  <<"w","h","a","t"," ","i","s"," ">> \o Lower(user_input),
                  <<"h","o","w"," ","d","o","e","s"," ">> \o Lower(user_input)
                      \o <<" ","w","o","r","k">>>>
        /\ (~plan[1].raises /\ UsableLines # << >>) =>
              /\ Len(queries) = (IF Len(UsableLines) < 3 THEN Len(UsableLines) ELSE 3)
              /\ \A k \in 1..Len(queries) :
                    queries[k] = UsableLines[k] /\ Len(queries[k]) > 3

\* the model answered a question with capitals by one line too short to be
\* a query: the three templated queries were planned
C17_Witness ==
    /\ variant = "optimized" /\ pc = "search" /\ ~plan[1].raises
    /\ plan[1].content = <<"2","."," ","a","b">>
    /\ user_input = <<"L","L","M">>
    /\ Len(queries) = 3
    /\ queries[1] = <<"l","l","m"," ","e","x","p","l","a","i","n","e","d">>

\* the model wrote four usable lines and the first three were planned
C17_TruncationReached ==
    /\ variant = "optimized" /\ pc = "search" /\ ~plan[1].raises
    /\ Len(UsableLines) = 4 /\ Len(queries) = 3
    /\ UsableLines[1] # UsableLines[2]

====
